---- MODULE Spec2Model ----
(***************************************************************************)
(* Model of the decorator layer of the DDS CLI                             *)
(* (src/cli_code/cli_decorators.py): the streaming checksum verifier       *)
(* (checksum_verification_required), the per-file operation guard          *)
(* (verify_proceed) and the sub-operation status guard (update_status),    *)
(* all acting on the file-keyed status store self.status.                  *)
(***************************************************************************)
EXTENDS Integers, Sequences, FiniteSets, TLC

VARIABLES
    status,         \* self.status: file -> record of flags and sub-operation records
    stop_doing,     \* self.stop_doing: the keyboard-interrupt flag
    break_on_fail,  \* self.break_on_fail
    ncalls,         \* number of guard invocations made so far in the session
    last,           \* the most recent guard invocation: its arguments, what the
                    \* wrapped function returned if it was invoked, and the result
    cs,             \* one invocation of verify_checksum: its input and its result
    thr,            \* parallel run: per file, the thread executing verify_proceed
    ran,            \* parallel run: files whose wrapped function has been invoked
    cascaded,       \* parallel run: files cancelled by a break-on-fail cascade
    cloud,          \* the object decorated by connect_cloud and its latest call
    dirs            \* the file system seen by subpath_required and its latest call

parVars == <<thr, ran, cascaded>>
ioVars == <<cloud, dirs>>
vars == <<status, stop_doing, break_on_fail, ncalls, last, cs, parVars, ioVars>>

-----------------------------------------------------------------------------
(* Bounds of the model *)

\* guard invocations in one session
MaxCalls == 3
\* chunks yielded by the wrapped data-producing function
MaxChunks == 2
\* bytes in one chunk
MaxChunkLen == 2
\* calls of a connect_cloud-decorated method on one object
MaxConnects == 4
\* calls of a subpath_required-decorated method in one session
MaxDirCalls == 3

\* the files registered in the status store, in dict (insertion) order
FileOrder == <<"a", "b", "c">>
Files == {FileOrder[i] : i \in DOMAIN FileOrder}

\* messages returned by wrapped functions / carried by raised errors
Msgs == {"m1", "m2"}

\* byte values making up the chunks
ByteVals == {1, 2}

-----------------------------------------------------------------------------
(* Checksum verification: checksum_verification_required.verify_checksum *)

HexDigits == <<"0", "1", "2", "3", "4", "5", "6", "7",
               "8", "9", "a", "b", "c", "d", "e", "f">>

\* hashlib.sha256(): the state of a fresh hash object
sha256_new == 0

\* checksum.update(chunk): absorb the bytes of one chunk, in order
RECURSIVE sha256_update(_, _)
sha256_update(h, chunk) ==
    IF chunk = <<>> THEN h
    ELSE sha256_update((h * 3 + Head(chunk)) % 4096, Tail(chunk))

\* checksum.hexdigest(): fixed-width lowercase hex rendering of the hash state
hexdigest(h) ==
    HexDigits[((h \div 256) % 16) + 1] \o HexDigits[((h \div 16) % 16) + 1]
        \o HexDigits[(h % 16) + 1]

\* for chunk in chunks: checksum.update(chunk)
\* The iterable yields chunks[1..failAt-1] and then raises (failAt = 0: it is
\* exhausted normally).  Result: hash state, chunks consumed, error raised.
RECURSIVE consume(_, _, _)
consume(func, i, h) ==
    IF func.failAt = i
    THEN [hash |-> h, consumed |-> i - 1, error |-> func.failKind,
          message |-> func.failMsg]
    ELSE IF i > Len(func.chunks)
    THEN [hash |-> h, consumed |-> i - 1, error |-> "none", message |-> ""]
    ELSE consume(func, i + 1, sha256_update(h, func.chunks[i]))

ChecksumFailedMsg == "Checksum verification failed. File compromised."

NoResult == [done |-> FALSE, message |-> "", consumed |-> 0, compared |-> FALSE]

\* The "if do_verify:" block: hash the chunks and compare the digests.
\* escaped: a ChecksumError raised while iterating leaves the outer try body.
verify_block(correct_checksum, func) ==
    LET it == consume(func, 1, sha256_new) IN
    IF it.error = "ValueError"
    THEN \* except ValueError as cs_err
        [res |-> [NoResult EXCEPT !.message = it.message, !.consumed = it.consumed],
         escaped |-> FALSE]
    ELSE IF it.error = "ChecksumError"
    THEN \* not caught here: handled by the outer except ChecksumError
        [res |-> [NoResult EXCEPT !.message = it.message, !.consumed = it.consumed],
         escaped |-> TRUE]
    ELSE IF hexdigest(it.hash) # correct_checksum
    THEN [res |-> [NoResult EXCEPT !.message = ChecksumFailedMsg,
                                   !.consumed = it.consumed, !.compared = TRUE],
          escaped |-> FALSE]
    ELSE [res |-> [NoResult EXCEPT !.done = TRUE,
                                   !.consumed = it.consumed, !.compared = TRUE],
          escaped |-> FALSE]

\* mutant: the hashing block is entered whatever do_verify is
verify_checksum_always_hashes(correct_checksum, func, do_verify) ==
    IF func.raises
    THEN [NoResult EXCEPT !.message = func.err]
    ELSE
        LET body == verify_block(correct_checksum, func) IN
        IF body.escaped THEN body.res ELSE [body.res EXCEPT !.done = TRUE]

\* mutant: the ChecksumError handler does not record the failure
verify_checksum_swallows_error(correct_checksum, func, do_verify) ==
    IF func.raises
    THEN [NoResult EXCEPT !.done = TRUE]
    ELSE
        LET body == IF do_verify THEN verify_block(correct_checksum, func)
                    ELSE [res |-> NoResult, escaped |-> FALSE]
        IN
        IF body.escaped THEN body.res ELSE [body.res EXCEPT !.done = TRUE]

\* verify_checksum(correct_checksum, *args, do_verify, **kwargs)
\*   func: what the wrapped function does: it raises ChecksumError when called
\*   (raises, err), or returns an iterable of chunks (chunks, failAt, ...).
\* Result: the returned (done, message), the number of chunks consumed and
\* whether the digest comparison was evaluated.
verify_checksum(correct_checksum, func, do_verify) ==
    IF func.raises
    THEN \* chunks = func(...) raises: except ChecksumError as err
        [NoResult EXCEPT !.message = func.err]
    ELSE
        LET body == IF do_verify THEN verify_block(correct_checksum, func)
                    ELSE [res |-> NoResult, escaped |-> FALSE]
        IN
        IF body.escaped
        THEN body.res
        ELSE \* else clause of the outer try: no ChecksumError was raised
            [body.res EXCEPT !.done = TRUE]

\* Inputs of verify_checksum
RECURSIVE SeqsUpTo(_, _)
SeqsUpTo(S, n) ==
    IF n = 0 THEN {<<>>}
    ELSE LET shorter == SeqsUpTo(S, n - 1) IN
         shorter \cup {Append(s, x) : s \in {t \in shorter : Len(t) = n - 1}, x \in S}

ChunkVals == SeqsUpTo(ByteVals, MaxChunkLen)
ChunkSeqs == SeqsUpTo(ChunkVals, MaxChunks)

RECURSIVE digest_of(_, _)
digest_of(chunks, h) ==
    IF chunks = <<>> THEN hexdigest(h)
    ELSE digest_of(Tail(chunks), sha256_update(h, Head(chunks)))

\* expected digests: the digests of short contents, and strings that are no digest
Digests == {hexdigest(n) : n \in 0 .. 8} \cup {"", "00A"}

FuncOutcomes ==
    { [raises |-> TRUE, err |-> m, chunks |-> <<>>, failAt |-> 0,
       failKind |-> "none", failMsg |-> ""] : m \in Msgs }
    \cup
    { [raises |-> FALSE, err |-> "", chunks |-> c, failAt |-> 0,
       failKind |-> "none", failMsg |-> ""] : c \in ChunkSeqs }
    \cup
    UNION { { [raises |-> FALSE, err |-> "", chunks |-> c, failAt |-> k,
               failKind |-> e, failMsg |-> m] :
                 k \in 1 .. Len(c) + 1, e \in {"ValueError", "ChecksumError"},
                 m \in Msgs } : c \in ChunkSeqs }

CsInputs ==
    [correct_checksum : Digests, func : FuncOutcomes, do_verify : BOOLEAN]

CsIdle ==
    [phase |-> "idle",
     in |-> [correct_checksum |-> "", do_verify |-> FALSE,
             func |-> [raises |-> FALSE, err |-> "", chunks |-> <<>>, failAt |-> 0,
                       failKind |-> "none", failMsg |-> ""]],
     out |-> NoResult]

-----------------------------------------------------------------------------
(* The status store *)

Whitelist == {"put", "add_file_db", "get", "update_db"}
\* names of the decorated functions invoked in the model: two registered
\* sub-operations, a whitelisted one without a record, and one outside the list
FuncNames == {"put", "add_file_db", "get", "remove_all"}

\* sub-operation keys registered for the files of an upload session
SessionKeys == {"put", "add_file_db"}

None == "None"

NewSubOp == [started |-> FALSE, done |-> FALSE]

\* a file record as registered at session start, with sub-operation keys ks
\* (self.status[file][name] of the source is ops[name] here)
NewRecord(ks) ==
    [started |-> FALSE, cancel |-> FALSE, message |-> "", failed_op |-> None,
     ops |-> [k \in ks |-> NewSubOp]]

\* f"Cancelling upload due to file '{file}'. Break-on-fail specified in call."
CascadeMessage(file) ==
    "Cancelling upload due to file '" \o file
        \o "'. Break-on-fail specified in call."

\* the results of a guard invocation
RetBool(ok) == [kind |-> "bool", ok |-> ok, message |-> ""]
RetTuple(ok, message) == [kind |-> "tuple", ok |-> ok, message |-> message]
RetRaise(message) == [kind |-> "raise", ok |-> FALSE, message |-> message]
RetNone == [kind |-> "none", ok |-> FALSE, message |-> ""]

\* mutant: the name is not tested against the fixed list
update_status_no_whitelist(st, file, name, inner) ==
    IF name \notin DOMAIN st[file].ops
    THEN [status |-> st, usInner |-> 0,
          ret |-> RetRaise("No status found for function " \o name \o ".")]
    ELSE
        LET st1 == [st EXCEPT ![file].ops[name].started = TRUE]
            st2 == IF ~inner[1]
                   THEN [st1 EXCEPT ![file].failed_op = name]
                   ELSE [st1 EXCEPT ![file].ops[name].done = TRUE]
        IN [status |-> st2, usInner |-> 1, ret |-> RetTuple(inner[1], inner[2])]

\* the two precondition failures of update_status.wrapped, if any
UpdateStatusRaises(st, file, name) ==
    IF name \notin Whitelist
    THEN RetRaise("The function " \o name \o " cannot be used with this decorator.")
    ELSE IF name \notin DOMAIN st[file].ops
    THEN RetRaise("No status found for function " \o name \o ".")
    ELSE RetNone

\* mutant: a failed sub-operation also cancels the file
update_status_cancels_on_failure(st, file, name, inner) ==
    IF UpdateStatusRaises(st, file, name).kind = "raise"
    THEN [status |-> st, usInner |-> 0, ret |-> UpdateStatusRaises(st, file, name)]
    ELSE
        LET st1 == [st EXCEPT ![file].ops[name].started = TRUE]
            st2 == IF ~inner[1]
                   THEN [st1 EXCEPT ![file].failed_op = name, ![file].cancel = TRUE]
                   ELSE [st1 EXCEPT ![file].ops[name].done = TRUE]
        IN [status |-> st2, usInner |-> 1, ret |-> RetTuple(inner[1], inner[2])]

\* mutant: marking the sub-operation as started clears its done flag
update_status_resets_done(st, file, name, inner) ==
    IF UpdateStatusRaises(st, file, name).kind = "raise"
    THEN [status |-> st, usInner |-> 0, ret |-> UpdateStatusRaises(st, file, name)]
    ELSE
        LET st1 == [st EXCEPT ![file].ops[name] = [started |-> TRUE, done |-> FALSE]]
            st2 == IF ~inner[1]
                   THEN [st1 EXCEPT ![file].failed_op = name]
                   ELSE [st1 EXCEPT ![file].ops[name].done = TRUE]
        IN [status |-> st2, usInner |-> 1, ret |-> RetTuple(inner[1], inner[2])]

\* mutant: the done flag is set whatever the wrapped function returned
update_status_done_on_failure(st, file, name, inner) ==
    IF UpdateStatusRaises(st, file, name).kind = "raise"
    THEN [status |-> st, usInner |-> 0, ret |-> UpdateStatusRaises(st, file, name)]
    ELSE
        LET st1 == [st EXCEPT ![file].ops[name].started = TRUE]
            st2 == IF ~inner[1]
                   THEN [st1 EXCEPT ![file].failed_op = name,
                                    ![file].ops[name].done = TRUE]
                   ELSE [st1 EXCEPT ![file].ops[name].done = TRUE]
        IN [status |-> st2, usInner |-> 1, ret |-> RetTuple(inner[1], inner[2])]

\* update_status.wrapped(self, file): func.__name__ = name, and the wrapped
\* function returns the tuple inner = (ok_to_continue, message, *extra).
\* Result: the store afterwards, what the call returned or raised, and the
\* number of times the wrapped function was invoked.
update_status(st, file, name, inner) ==
    IF name \notin Whitelist
    THEN [status |-> st, usInner |-> 0,
          ret |-> RetRaise("The function " \o name
                           \o " cannot be used with this decorator.")]
    ELSE IF name \notin DOMAIN st[file].ops
    THEN [status |-> st, usInner |-> 0,
          ret |-> RetRaise("No status found for function " \o name \o ".")]
    ELSE
        LET st1 == [st EXCEPT ![file].ops[name].started = TRUE]
            ok_to_continue == inner[1]
            message == inner[2]
            st2 == IF ~ok_to_continue
                   THEN [st1 EXCEPT ![file].failed_op = name]
                   ELSE [st1 EXCEPT ![file].ops[name].done = TRUE]
        IN [status |-> st2, usInner |-> 1, ret |-> RetTuple(ok_to_continue, message)]

\* mutant: the comprehension does not test "not self.status[x]['cancel']"
RECURSIVE cancel_unstarted_ignores_cancel(_, _, _, _)
cancel_unstarted_ignores_cancel(st, keys, file, message) ==
    IF keys = <<>> THEN st
    ELSE
        LET x == Head(keys) IN
        cancel_unstarted_ignores_cancel(
            IF ~st[x].started /\ x # file
            THEN [st EXCEPT ![x].cancel = TRUE, ![x].message = message]
            ELSE st,
            Tail(keys), file, message)

\* The bulk cancellation of break-on-fail: the list comprehension over
\* self.status, visiting the keys in dict order and updating as it goes.
RECURSIVE cancel_unstarted(_, _, _, _)
cancel_unstarted(st, keys, file, message) ==
    IF keys = <<>> THEN st
    ELSE
        LET x == Head(keys) IN
        cancel_unstarted(
            IF ~st[x].cancel /\ ~st[x].started /\ x # file
            THEN [st EXCEPT ![x].cancel = TRUE, ![x].message = message]
            ELSE st,
            Tail(keys), file, message)

\* mutant: the cascade keeps the failure message instead of building its own
fail_update_reuses_message(st, bof, file, message) ==
    LET st1 == [st EXCEPT ![file].cancel = TRUE, ![file].message = message] IN
    IF bof
    THEN cancel_unstarted(st1, FileOrder, file, message)
    ELSE st1

\* mutant: the cascade does not depend on self.break_on_fail
fail_update_always_cascades(st, bof, file, message) ==
    LET st1 == [st EXCEPT ![file].cancel = TRUE, ![file].message = message] IN
    cancel_unstarted(st1, FileOrder, file, CascadeMessage(file))

\* mutant: the failure cancels the file only, break-on-fail or not
fail_update_without_cascade(st, bof, file, message) ==
    [st EXCEPT ![file].cancel = TRUE, ![file].message = message]

\* mutant: with break-on-fail the failed file itself is left uncancelled
fail_update_spares_trigger(st, bof, file, message) ==
    IF bof
    THEN cancel_unstarted(st, FileOrder, file, CascadeMessage(file))
    ELSE [st EXCEPT ![file].cancel = TRUE, ![file].message = message]

\* "if not ok_to_proceed:": cancel the file, and with break-on-fail the
\* files that are neither cancelled nor started
fail_update(st, bof, file, message) ==
    LET st1 == [st EXCEPT ![file].cancel = TRUE, ![file].message = message] IN
    IF bof
    THEN cancel_unstarted(st1, FileOrder, file, CascadeMessage(file))
    ELSE st1

\* What the function wrapped by verify_proceed does: it may call the
\* update_status-wrapped put on its file (sub.call), and returns (ok, message).
NoSub == [call |-> FALSE, name |-> "put", ok |-> TRUE]
SubCalls == {NoSub} \cup [call : {TRUE}, name : {"put"}, ok : BOOLEAN]
\* a failure carries any message; one message stands for those of a success,
\* which the guard does not read
InnerFuncs ==
    [ok : {FALSE}, message : Msgs, sub : SubCalls]
        \cup [ok : {TRUE}, message : {"m1"}, sub : SubCalls]

\* mutant: the file is not marked as started
run_wrapped_not_started(st, bof, file, inner) ==
    LET sub == IF inner.sub.call
               THEN update_status(st, file, inner.sub.name,
                                  <<inner.sub.ok, inner.message>>)
               ELSE [status |-> st, usInner |-> 0, ret |-> RetNone]
    IN
    IF sub.ret.kind = "raise"
    THEN [status |-> sub.status, ret |-> sub.ret, vpInner |-> 1,
          usInner |-> sub.usInner]
    ELSE
        [status |-> IF ~inner.ok
                    THEN fail_update(sub.status, bof, file, inner.message)
                    ELSE sub.status,
         ret |-> RetBool(inner.ok), vpInner |-> 1, usInner |-> sub.usInner]

\* verify_proceed.wrapped past its two checks: mark the file as started,
\* run the wrapped function and act on its result.
\* Result: the store afterwards, what the call returned or raised, and the
\* number of times the wrapped function (vpInner) and a nested sub-operation
\* (usInner) were invoked.
run_wrapped(st, bof, file, inner) ==
    LET st1 == [st EXCEPT ![file].started = TRUE]
        \* func(self, file=file, ...)
        sub == IF inner.sub.call
               THEN update_status(st1, file, inner.sub.name,
                                  <<inner.sub.ok, inner.message>>)
               ELSE [status |-> st1, usInner |-> 0, ret |-> RetNone]
    IN
    IF sub.ret.kind = "raise"
    THEN \* the exception of the sub-operation guard propagates
        [status |-> sub.status, ret |-> sub.ret, vpInner |-> 1,
         usInner |-> sub.usInner]
    ELSE
        [status |-> IF ~inner.ok
                    THEN fail_update(sub.status, bof, file, inner.message)
                    ELSE sub.status,
         ret |-> RetBool(inner.ok), vpInner |-> 1, usInner |-> sub.usInner]

\* the call returns False without proceeding
NotProceed(st) ==
    [status |-> st, ret |-> RetBool(FALSE), vpInner |-> 0, usInner |-> 0]

\* mutant: a cancelled file is not turned away
verify_proceed_no_cancel_check(st, stop, bof, file, inner) ==
    IF stop
    THEN NotProceed(st)
    ELSE run_wrapped(st, bof, file, inner)

\* mutant: the interrupt flag is not consulted
verify_proceed_ignores_interrupt(st, stop, bof, file, inner) ==
    IF st[file].cancel
    THEN NotProceed(st)
    ELSE run_wrapped(st, bof, file, inner)

\* verify_proceed.wrapped(self, file), with stop = self.stop_doing and
\* bof = self.break_on_fail
verify_proceed(st, stop, bof, file, inner) ==
    IF stop
    THEN NotProceed(st)
    ELSE IF st[file].cancel
    THEN NotProceed(st)
    ELSE run_wrapped(st, bof, file, inner)

-----------------------------------------------------------------------------
(* The state machine *)

\* no thread is running verify_proceed
NoThread == [pc |-> "idle", ok |-> FALSE, message |-> "", keys |-> <<>>]

ParIdle ==
    /\ thr = [f \in Files |-> NoThread]
    /\ ran = {}
    /\ cascaded = {}

\* no connect_cloud-decorated method has been called
\* (None of the source is the string "None"; resource.set: self.resource bound)
NoResource == [set |-> FALSE, url |-> "None", keys |-> "None"]

CloudIdle ==
    [url |-> "None", keys |-> "None", message |-> "", resource |-> NoResource,
     nconn |-> 0, outcome |-> "none", err |-> "", attempts |-> 0,
     funcCalls |-> 0, ret |-> "None"]

\* no subpath_required-decorated method has been called
DirsIdle ==
    [fs |-> {}, ncalls |-> 0, file |-> "a", existed |-> FALSE, mk |-> "none",
     err |-> "", mkdirCalls |-> 0, funcCalls |-> 0, inner |-> RetNone,
     ret |-> RetNone]

IoIdle ==
    /\ cloud = CloudIdle
    /\ dirs = DirsIdle

NoCall ==
    [op |-> "none", file |-> "a", name |-> "", ok |-> FALSE,
     message |-> "", ret |-> RetNone, vpInner |-> 0, usInner |-> 0]

\* A session: the orchestrator has registered the files, all flags false.
Init ==
    /\ status = [f \in Files |-> NewRecord(SessionKeys)]
    /\ stop_doing = FALSE
    /\ break_on_fail \in BOOLEAN
    /\ ncalls = 0
    /\ last = NoCall
    /\ cs = CsIdle
    /\ ParIdle
    /\ IoIdle

\* The orchestrator invokes a verify_proceed-wrapped operation on file.
VerifyProceed(file, inner) ==
    /\ ncalls < MaxCalls
    /\ LET r == verify_proceed(status, stop_doing, break_on_fail, file, inner) IN
       /\ status' = r.status
       /\ last' = [op |-> "verify_proceed", file |-> file,
                   name |-> IF r.usInner = 1 THEN inner.sub.name ELSE "",
                   ok |-> r.vpInner = 1 /\ inner.ok,
                   message |-> IF r.vpInner = 1 THEN inner.message ELSE "",
                   ret |-> r.ret, vpInner |-> r.vpInner, usInner |-> r.usInner]
    /\ ncalls' = ncalls + 1
    /\ UNCHANGED <<stop_doing, break_on_fail, cs, parVars, ioVars>>

\* An update_status-wrapped sub-operation named name is invoked on file.
UpdateStatus(file, name, inner) ==
    /\ ncalls < MaxCalls
    /\ LET r == update_status(status, file, name, inner) IN
       /\ status' = r.status
       /\ last' = [op |-> "update_status", file |-> file, name |-> name,
                   ok |-> r.usInner = 1 /\ inner[1],
                   message |-> IF r.usInner = 1 THEN inner[2] ELSE "",
                   ret |-> r.ret, vpInner |-> 0, usInner |-> r.usInner]
    /\ ncalls' = ncalls + 1
    /\ UNCHANGED <<stop_doing, break_on_fail, cs, parVars, ioVars>>

\* The user interrupts the run: the flag read by verify_proceed is set.
KeyboardInterrupt ==
    /\ ~stop_doing
    /\ stop_doing' = TRUE
    /\ UNCHANGED <<status, break_on_fail, ncalls, last, cs, parVars, ioVars>>

\* what an update_status-wrapped function returns: (ok, message, *extra)
InnerTuples ==
    {<<ok, "m1">> : ok \in BOOLEAN} \cup {<<ok, "m2", "extra">> : ok \in BOOLEAN}

\* The behaviours of the wrapped function to consider for a call: it has one
\* only in the calls that reach it.
InnerFuncsAt(file) ==
    IF verify_proceed(status, stop_doing, break_on_fail, file,
                      [ok |-> TRUE, message |-> "m1", sub |-> NoSub]).vpInner = 1
    THEN InnerFuncs
    ELSE {[ok |-> TRUE, message |-> "m1", sub |-> NoSub]}

InnerTuplesAt(file, name) ==
    IF update_status(status, file, name, <<TRUE, "m1">>).usInner = 1
    THEN InnerTuples
    ELSE {<<TRUE, "m1">>}

Next ==
    \/ \E file \in Files : \E inner \in InnerFuncsAt(file) :
           VerifyProceed(file, inner)
    \/ \E file \in Files, name \in FuncNames :
           \E inner \in InnerTuplesAt(file, name) : UpdateStatus(file, name, inner)
    \/ KeyboardInterrupt

Spec == Init /\ [][Next]_vars

\* One call of a checksum-verified function.
InitChecksum ==
    /\ status = [f \in Files |-> NewRecord(SessionKeys)]
    /\ stop_doing = FALSE
    /\ break_on_fail = FALSE
    /\ ncalls = 0
    /\ last = NoCall
    /\ \E i \in CsInputs : cs = [phase |-> "called", in |-> i, out |-> NoResult]
    /\ ParIdle
    /\ IoIdle

VerifyChecksum ==
    /\ cs.phase = "called"
    /\ cs' = [cs EXCEPT !.phase = "returned",
                        !.out = verify_checksum(cs.in.correct_checksum, cs.in.func,
                                                cs.in.do_verify)]
    /\ UNCHANGED <<status, stop_doing, break_on_fail, ncalls, last, parVars, ioVars>>

NextChecksum == VerifyChecksum

SpecChecksum == InitChecksum /\ [][NextChecksum]_vars

-----------------------------------------------------------------------------
(* File-level parallelism: one thread per file runs verify_proceed.wrapped, *)
(* the threads interleaving between the statements of the function.  The    *)
(* function takes no lock.                                                   *)

InitPar ==
    /\ status = [f \in Files |-> NewRecord(SessionKeys)]
    /\ stop_doing = FALSE
    /\ break_on_fail \in BOOLEAN
    /\ ncalls = 0
    /\ last = NoCall
    /\ cs = CsIdle
    /\ thr = [f \in Files |-> [NoThread EXCEPT !.pc = "check_flag"]]
    /\ ran = {}
    /\ cascaded = {}
    /\ IoIdle

ParFrame == UNCHANGED <<stop_doing, break_on_fail, ncalls, last, cs, ioVars>>

\* if self.stop_doing: return False
ParCheckFlag(f) ==
    /\ thr[f].pc = "check_flag"
    /\ thr' = [thr EXCEPT ![f].pc = IF stop_doing THEN "done" ELSE "check_cancel"]
    /\ UNCHANGED <<status, ran, cascaded>>
    /\ ParFrame

\* if self.status[file]["cancel"]: return False
ParCheckCancel(f) ==
    /\ thr[f].pc = "check_cancel"
    /\ thr' = [thr EXCEPT ![f].pc = IF status[f].cancel THEN "done"
                                    ELSE "set_started"]
    /\ UNCHANGED <<status, ran, cascaded>>
    /\ ParFrame

\* self.status[file]["started"] = True
ParSetStarted(f) ==
    /\ thr[f].pc = "set_started"
    /\ status' = [status EXCEPT ![f].started = TRUE]
    /\ thr' = [thr EXCEPT ![f].pc = "run"]
    /\ UNCHANGED <<ran, cascaded>>
    /\ ParFrame

\* ok_to_proceed, message = func(self, file=file, ...)
ParRunInner(f, ok, message) ==
    /\ thr[f].pc = "run"
    /\ ran' = ran \cup {f}
    /\ thr' = [thr EXCEPT ![f].pc = IF ok THEN "done" ELSE "fail_update",
                          ![f].ok = ok, ![f].message = message]
    /\ UNCHANGED <<status, cascaded>>
    /\ ParFrame

\* self.status[file].update({"cancel": True, "message": message}), then
\* "if self.break_on_fail:" enters the comprehension over self.status
ParFailUpdate(f) ==
    /\ thr[f].pc = "fail_update"
    /\ status' = [status EXCEPT ![f].cancel = TRUE, ![f].message = thr[f].message]
    /\ thr' = IF break_on_fail
              THEN [thr EXCEPT ![f].pc = "scan_check", ![f].keys = FileOrder]
              ELSE [thr EXCEPT ![f].pc = "done"]
    /\ UNCHANGED <<ran, cascaded>>
    /\ ParFrame

\* the condition of the comprehension, evaluated for the next key x
ParScanCheck(f) ==
    /\ thr[f].pc = "scan_check"
    /\ IF thr[f].keys = <<>>
       THEN thr' = [thr EXCEPT ![f].pc = "done"]
       ELSE LET x == Head(thr[f].keys) IN
            IF ~status[x].cancel /\ ~status[x].started /\ x # f
            THEN thr' = [thr EXCEPT ![f].pc = "scan_cancel"]
            ELSE thr' = [thr EXCEPT ![f].keys = Tail(thr[f].keys)]
    /\ UNCHANGED <<status, ran, cascaded>>
    /\ ParFrame

\* self.status[x].update({"cancel": True, "message": message}) for that key
ParScanCancel(f) ==
    /\ thr[f].pc = "scan_cancel"
    /\ LET x == Head(thr[f].keys) IN
       /\ status' = [status EXCEPT ![x].cancel = TRUE,
                                   ![x].message = CascadeMessage(f)]
       /\ cascaded' = cascaded \cup {x}
    /\ thr' = [thr EXCEPT ![f].pc = "scan_check", ![f].keys = Tail(thr[f].keys)]
    /\ UNCHANGED ran
    /\ ParFrame

ParInterrupt ==
    /\ ~stop_doing
    /\ stop_doing' = TRUE
    /\ UNCHANGED <<status, break_on_fail, ncalls, last, cs, parVars, ioVars>>

NextPar ==
    \/ \E f \in Files : ParCheckFlag(f)
    \/ \E f \in Files : ParCheckCancel(f)
    \/ \E f \in Files : ParSetStarted(f)
    \/ \E f \in Files, ok \in BOOLEAN : ParRunInner(f, ok, "m1")
    \/ \E f \in Files : ParFailUpdate(f)
    \/ \E f \in Files : ParScanCheck(f)
    \/ \E f \in Files : ParScanCancel(f)
    \/ ParInterrupt

SpecPar == InitPar /\ [][NextPar]_vars

-----------------------------------------------------------------------------
(* connect_cloud.init_resource *)

Urls == {"https://s3.one", "https://s3.two"}
\* self.keys: a pair of access and secret key, named by one string
KeyPairs == {"keys1", "keys2"}
\* what the wrapped method returns
FuncResults == {"r1", "r2"}

\* what boto3 does when asked for the session and the resource: it returns
\* them, or raises an error of one of its two exception families
BotoOutcomes == {"ok", "Boto3Error", "BotoCoreError"}

\* mutant: the wrapped method is called after the try statement, not in its
\* else clause
connect_cloud_calls_func_anyway(c, outcome, err, funcRet) ==
    IF c.keys = "None"
    THEN [c EXCEPT !.nconn = c.nconn + 1, !.outcome = "TypeError", !.err = "",
                   !.attempts = 0, !.funcCalls = 0, !.ret = "None"]
    ELSE IF outcome # "ok"
    THEN [c EXCEPT !.url = "None", !.keys = "None",
                   !.message = "S3 connection failed: " \o err,
                   !.nconn = c.nconn + 1, !.outcome = outcome, !.err = err,
                   !.attempts = 1, !.funcCalls = 1, !.ret = funcRet]
    ELSE [c EXCEPT !.resource = [set |-> TRUE, url |-> c.url, keys |-> c.keys],
                   !.nconn = c.nconn + 1, !.outcome = "ok", !.err = "",
                   !.attempts = 1, !.funcCalls = 1, !.ret = funcRet]

\* init_resource(self): the object afterwards, with what the call did
\*   outcome, err: what boto3 does; funcRet: what the wrapped method returns
connect_cloud(c, outcome, err, funcRet) ==
    IF c.keys = "None"
    THEN \* self.keys["access_key"] on None raises TypeError, which the except
         \* clause does not name: it propagates
        [c EXCEPT !.nconn = c.nconn + 1, !.outcome = "TypeError", !.err = "",
                  !.attempts = 0, !.funcCalls = 0, !.ret = "None"]
    ELSE IF outcome # "ok"
    THEN \* except (Boto3Error, BotoCoreError) as err
        [c EXCEPT !.url = "None", !.keys = "None",
                  !.message = "S3 connection failed: " \o err,
                  !.nconn = c.nconn + 1, !.outcome = outcome, !.err = err,
                  !.attempts = 1, !.funcCalls = 0, !.ret = "None"]
    ELSE \* else: return func(self, ...)
        [c EXCEPT !.resource = [set |-> TRUE, url |-> c.url, keys |-> c.keys],
                  !.nconn = c.nconn + 1, !.outcome = "ok", !.err = "",
                  !.attempts = 1, !.funcCalls = 1, !.ret = funcRet]

InitCloud ==
    /\ status = [f \in Files |-> NewRecord(SessionKeys)]
    /\ stop_doing = FALSE
    /\ break_on_fail = FALSE
    /\ ncalls = 0
    /\ last = NoCall
    /\ cs = CsIdle
    /\ ParIdle
    /\ \E u \in Urls, k \in KeyPairs : cloud = [CloudIdle EXCEPT !.url = u, !.keys = k]
    /\ dirs = DirsIdle

\* A connect_cloud-decorated method of the object is called.
ConnectCloud(outcome, err, funcRet) ==
    /\ cloud.nconn < MaxConnects
    /\ cloud' = connect_cloud(cloud, outcome, err, funcRet)
    /\ UNCHANGED <<status, stop_doing, break_on_fail, ncalls, last, cs, parVars, dirs>>

\* boto3 and the wrapped method act only in the calls that reach them
BotoOutcomesAt == IF cloud.keys = "None" THEN {"ok"} ELSE BotoOutcomes
BotoErrorsAt(outcome) ==
    IF cloud.keys = "None" \/ outcome = "ok" THEN {""} ELSE Msgs
FuncResultsAt(outcome) ==
    IF cloud.keys = "None" \/ outcome # "ok" THEN {"r1"} ELSE FuncResults

NextCloud ==
    \E outcome \in BotoOutcomesAt :
        \E err \in BotoErrorsAt(outcome), funcRet \in FuncResultsAt(outcome) :
            ConnectCloud(outcome, err, funcRet)

SpecCloud == InitCloud /\ [][NextCloud]_vars

-----------------------------------------------------------------------------
(* subpath_required.check_and_create *)

\* self.filehandler.data[file]["subpath"], as path components below
\* self.filehandler.local_destination
Subpath(file) ==
    IF file = "a" THEN <<"x">> ELSE IF file = "b" THEN <<"x", "y">> ELSE <<"z">>

\* the path and its parents
Prefixes(path) == {SubSeq(path, 1, n) : n \in 1 .. Len(path)}

AllPaths == UNION {Prefixes(Subpath(f)) : f \in Files}

\* what full_subpath.mkdir(parents=True, exist_ok=True) does: it creates the
\* path and its missing parents, or raises OSError after creating the first
\* made of them
MkdirOutcomes(path) ==
    {[ok |-> TRUE, err |-> "", made |-> Len(path)]}
        \cup [ok : {FALSE}, err : Msgs, made : 0 .. Len(path) - 1]

\* mutant: the directory is created without asking whether the path exists
check_and_create_always_mkdir(d, file, mk, funcRet) ==
    LET full_subpath == Subpath(file)
        called == [d EXCEPT !.ncalls = d.ncalls + 1, !.file = file,
                            !.existed = full_subpath \in d.fs]
    IN
    IF ~mk.ok
    THEN [called EXCEPT !.fs = d.fs \cup {p \in Prefixes(full_subpath) :
                                              Len(p) <= mk.made},
                        !.mk = "OSError", !.err = mk.err, !.mkdirCalls = 1,
                        !.funcCalls = 0, !.inner = RetNone,
                        !.ret = RetTuple(FALSE, mk.err)]
    ELSE [called EXCEPT !.fs = d.fs \cup Prefixes(full_subpath),
                        !.mk = "ok", !.err = "", !.mkdirCalls = 1,
                        !.funcCalls = 1, !.inner = funcRet, !.ret = funcRet]

\* check_and_create(self, file): the file system afterwards, with what the
\* call did.  mk: what mkdir does; funcRet: what the wrapped method returns
check_and_create(d, file, mk, funcRet) ==
    LET full_subpath == Subpath(file)
        called == [d EXCEPT !.ncalls = d.ncalls + 1, !.file = file,
                            !.existed = full_subpath \in d.fs]
    IN
    IF full_subpath \in d.fs
    THEN \* the path exists: return func(self, file=file, ...)
        [called EXCEPT !.mk = "none", !.err = "", !.mkdirCalls = 0,
                       !.funcCalls = 1, !.inner = funcRet, !.ret = funcRet]
    ELSE IF ~mk.ok
    THEN \* except OSError as err: return False, str(err)
        [called EXCEPT !.fs = d.fs \cup {p \in Prefixes(full_subpath) :
                                             Len(p) <= mk.made},
                       !.mk = "OSError", !.err = mk.err, !.mkdirCalls = 1,
                       !.funcCalls = 0, !.inner = RetNone,
                       !.ret = RetTuple(FALSE, mk.err)]
    ELSE [called EXCEPT !.fs = d.fs \cup Prefixes(full_subpath),
                        !.mk = "ok", !.err = "", !.mkdirCalls = 1,
                        !.funcCalls = 1, !.inner = funcRet, !.ret = funcRet]

\* directories that may exist when the session starts
InitialTrees == {t \in SUBSET AllPaths : \A p \in t : Prefixes(p) \subseteq t}

InitDirs ==
    /\ status = [f \in Files |-> NewRecord(SessionKeys)]
    /\ stop_doing = FALSE
    /\ break_on_fail = FALSE
    /\ ncalls = 0
    /\ last = NoCall
    /\ cs = CsIdle
    /\ ParIdle
    /\ cloud = CloudIdle
    /\ \E t \in InitialTrees : dirs = [DirsIdle EXCEPT !.fs = t]

\* A subpath_required-decorated method is called on file.
CheckAndCreate(file, mk, funcRet) ==
    /\ dirs.ncalls < MaxDirCalls
    /\ dirs' = check_and_create(dirs, file, mk, funcRet)
    /\ UNCHANGED <<status, stop_doing, break_on_fail, ncalls, last, cs, parVars, cloud>>

\* mkdir and the wrapped method act only in the calls that reach them
MkdirOutcomesAt(file) ==
    IF Subpath(file) \in dirs.fs
    THEN {[ok |-> TRUE, err |-> "", made |-> Len(Subpath(file))]}
    ELSE MkdirOutcomes(Subpath(file))
DirFuncResultsAt(mk) ==
    IF mk.ok THEN {RetTuple(ok, "m1") : ok \in BOOLEAN} ELSE {RetTuple(TRUE, "m1")}

NextDirs ==
    \E file \in Files :
        \E mk \in MkdirOutcomesAt(file) :
            \E funcRet \in DirFuncResultsAt(mk) : CheckAndCreate(file, mk, funcRet)

SpecDirs == InitDirs /\ [][NextDirs]_vars

-----------------------------------------------------------------------------
(* Properties of verify_checksum, checked under SpecChecksum *)

CsReturned == cs.phase = "returned"

\* the digest of the chunks the wrapped function returned, in order
CsDigest == digest_of(cs.in.func.chunks, sha256_new)

\* the wrapped function returned its chunks and iterating them raises nothing
CsCleanRun == ~cs.in.func.raises /\ cs.in.func.failAt = 0

\* C1: with do_verify, when the wrapped function returns its chunks and
\* consuming them raises nothing, the call succeeds if and only if the digest
\* of the chunks equals the expected digest: a match gives (True, ""), a
\* mismatch gives (False, "Checksum verification failed. File compromised.").
ChecksumDecidesSuccess ==
    (CsReturned /\ cs.in.do_verify /\ CsCleanRun) =>
        /\ cs.out.done <=> (CsDigest = cs.in.correct_checksum)
        /\ CsDigest = cs.in.correct_checksum =>
               (cs.out.done /\ cs.out.message = "")
        /\ CsDigest # cs.in.correct_checksum =>
               (~cs.out.done /\ cs.out.message = ChecksumFailedMsg)

\* C2: with do_verify, when consuming the chunks raises ValueError, the result
\* is (False, <the error's message>), whatever the expected digest is.
StreamErrorIsFailure ==
    (CsReturned /\ cs.in.do_verify /\ ~cs.in.func.raises
        /\ cs.in.func.failAt > 0 /\ cs.in.func.failKind = "ValueError") =>
        (~cs.out.done /\ cs.out.message = cs.in.func.failMsg)

\* C3: without do_verify no chunk is consumed, no digest is compared, and the
\* returned (done, message) is determined by whether the wrapped function
\* raised its error: it is the same for every chunk content and every
\* expected digest.
NoVerifyDependsOnInnerOnly ==
    (CsReturned /\ ~cs.in.do_verify) =>
        /\ cs.out.consumed = 0
        /\ ~cs.out.compared
        /\ cs.out.done = ~cs.in.func.raises
        /\ cs.out.message = (IF cs.in.func.raises THEN cs.in.func.err ELSE "")

\* a call without do_verify succeeded on content that does not have the
\* expected digest and whose iteration would have raised
NoVerifyWitness ==
    /\ CsReturned /\ ~cs.in.do_verify /\ ~cs.in.func.raises
    /\ Len(cs.in.func.chunks) = MaxChunks
    /\ cs.in.func.failAt = 1
    /\ CsDigest # cs.in.correct_checksum
    /\ cs.out.done /\ cs.out.message = ""

\* C4: for either value of do_verify, when the wrapped function raises
\* ChecksumError instead of returning chunks, the result is
\* (False, <the error's message>), no chunk is consumed and no digest is
\* compared.
InnerFailureSkipsVerification ==
    (CsReturned /\ cs.in.func.raises) =>
        /\ ~cs.out.done
        /\ cs.out.message = cs.in.func.err
        /\ cs.out.consumed = 0
        /\ ~cs.out.compared

\* a call with do_verify whose wrapped function raised came back as a failure
InnerFailureWitness ==
    /\ CsReturned /\ cs.in.func.raises /\ cs.in.do_verify
    /\ cs.in.func.err = "m2"
    /\ ~cs.out.done /\ cs.out.message = "m2"

-----------------------------------------------------------------------------
(* Properties of the guards, checked under Spec *)

\* this step is a guard invocation
GuardCall == ncalls' = ncalls + 1

VerifyProceedCall == GuardCall /\ last'.op = "verify_proceed"

\* this step is a verify_proceed invocation whose wrapped function returned
\* (False, last'.message)
VerifyProceedFailure ==
    VerifyProceedCall /\ last'.vpInner = 1 /\ last'.ret = RetBool(FALSE)

\* C5: verify_proceed invoked on a file whose cancel flag is set returns
\* False, does not invoke the wrapped function and leaves the whole status
\* store unchanged, each time it is invoked and whatever break_on_fail is.
CancelledFileIsNoOp ==
    [][(VerifyProceedCall /\ status[last'.file].cancel) =>
            /\ last'.ret = RetBool(FALSE)
            /\ last'.vpInner = 0 /\ last'.usInner = 0
            /\ status' = status]_vars

\* a third invocation, with the interrupt flag clear, turned away from a file
\* that its own failure cancelled
CancelledFileWitness ==
    /\ ncalls = 3 /\ ~stop_doing
    /\ last.op = "verify_proceed" /\ last.vpInner = 0
    /\ last.ret = RetBool(FALSE)
    /\ status[last.file].cancel /\ status[last.file].message \in Msgs

\* C6: when verify_proceed runs on file a with break_on_fail and the wrapped
\* function returns (False, m), every other file that was neither cancelled
\* nor started before the call is cancelled with the cascade message naming
\* a, and a is cancelled with message m.
BreakOnFailCascades ==
    [][(VerifyProceedFailure /\ break_on_fail) =>
            /\ status'[last'.file].cancel
            /\ status'[last'.file].message = last'.message
            /\ \A x \in Files \ {last'.file} :
                   (~status[x].cancel /\ ~status[x].started) =>
                       /\ status'[x].cancel
                       /\ status'[x].message = CascadeMessage(last'.file)]_vars

\* a file failed with break_on_fail while both other files were untouched:
\* both carry the cascade message, the failed file its own
BreakOnFailWitness ==
    /\ break_on_fail /\ ncalls = 1
    /\ last.op = "verify_proceed" /\ last.vpInner = 1 /\ ~last.ok
    /\ status[last.file].cancel /\ status[last.file].message = last.message
    /\ \A x \in Files \ {last.file} :
           /\ status[x].cancel /\ ~status[x].started
           /\ status[x].message = CascadeMessage(last.file)

\* C7: when verify_proceed runs on file a without break_on_fail and the
\* wrapped function returns failure, a is cancelled with the failure message
\* and the record of every other file is what it was before the call.
NoCascadeWithoutBreakOnFail ==
    [][(VerifyProceedFailure /\ ~break_on_fail) =>
            /\ status'[last'.file].cancel
            /\ status'[last'.file].message = last'.message
            /\ \A x \in Files \ {last'.file} : status'[x] = status[x]]_vars

\* a file failed without break_on_fail while another file was neither started
\* nor cancelled, and that file still is
NoCascadeWitness ==
    /\ ~break_on_fail
    /\ last.op = "verify_proceed" /\ last.vpInner = 1 /\ ~last.ok
    /\ status[last.file].cancel
    /\ \E x \in Files \ {last.file} : ~status[x].cancel /\ ~status[x].started

\* C8: the bulk cancellation of break-on-fail changes the record of no other
\* file that is started or already cancelled (its message is preserved), and
\* on the triggering file nothing beyond its own failure update.
BulkCancelSparesStartedAndCancelled ==
    [][(VerifyProceedFailure /\ break_on_fail) =>
            /\ \A x \in Files \ {last'.file} :
                   (status[x].started \/ status[x].cancel) =>
                       status'[x] = status[x]
            /\ last'.usInner = 0 =>
                   status'[last'.file] =
                       [status[last'.file] EXCEPT !.started = TRUE,
                            !.cancel = TRUE, !.message = last'.message]
            /\ status'[last'.file].message = last'.message]_vars

\* a file failed with break_on_fail while one other file was started and
\* another was unstarted but already cancelled by an earlier cascade, whose
\* message it still carries
BulkCancelWitness ==
    /\ break_on_fail
    /\ last.op = "verify_proceed" /\ last.vpInner = 1 /\ ~last.ok
    /\ \E x, y \in Files \ {last.file} :
           /\ x # y
           /\ status[x].started
           /\ ~status[y].started /\ status[y].cancel
           /\ status[y].message = CascadeMessage(x)

\* C9: every verify_proceed invocation made while stop_doing is set returns
\* False, does not invoke the wrapped function, does not set started and
\* leaves the whole status store unchanged, whatever the cancel flag of the
\* file is.
InterruptStopsEveryCall ==
    [][(VerifyProceedCall /\ stop_doing) =>
            /\ last'.ret = RetBool(FALSE)
            /\ last'.vpInner = 0 /\ last'.usInner = 0
            /\ status' = status]_vars

\* after the interrupt an invocation on a file that is neither cancelled nor
\* started was turned away
InterruptWitness ==
    /\ stop_doing
    /\ last.op = "verify_proceed" /\ last.vpInner = 0
    /\ last.ret = RetBool(FALSE)
    /\ ~status[last.file].cancel /\ ~status[last.file].started

\* C10: over every sequence of verify_proceed and update_status invocations,
\* once the cancel flag of a file is set no wrapped function is executed on
\* that file again.
CancelledNeverExecuted ==
    [][(GuardCall /\ (last'.vpInner = 1 \/ last'.usInner = 1)) =>
            ~status[last'.file].cancel]_vars

\* this step is a direct invocation of an update_status-wrapped function
UpdateStatusCall == GuardCall /\ last'.op = "update_status"

\* C12: update_status invoked with a name outside the fixed list raises its
\* contract-violation error whatever the store contains, and invoked with a
\* listed name that has no record in status[file] it raises too; in both
\* cases the wrapped function is not invoked and the store is unchanged.
ContractViolationRaises ==
    [][UpdateStatusCall =>
            /\ last'.name \notin Whitelist =>
                   /\ last'.ret = RetRaise("The function " \o last'.name
                                    \o " cannot be used with this decorator.")
                   /\ last'.usInner = 0 /\ status' = status
            /\ (last'.name \in Whitelist
                    /\ last'.name \notin DOMAIN status[last'.file].ops) =>
                   /\ last'.ret = RetRaise("No status found for function "
                                    \o last'.name \o ".")
                   /\ last'.usInner = 0 /\ status' = status]_vars

\* on a store that earlier calls have changed, a name outside the list was
\* refused
ContractViolationWitness ==
    /\ last.op = "update_status" /\ last.name = "remove_all"
    /\ last.ret.kind = "raise" /\ last.usInner = 0
    /\ status[last.file].cancel /\ status[last.file].failed_op = "put"

\* C13: status[f].failed_op is set if and only if the most recent guarded
\* operation attempt on f returned failure.
FailedOpTracksLastAttempt ==
    (last.op # "none" /\ (last.vpInner = 1 \/ last.usInner = 1)) =>
        ((status[last.file].failed_op # None) <=> ~last.ret.ok)

\* C16: verify_proceed invoked with the interrupt flag clear on a file that is
\* not cancelled marks the file as started, invokes the wrapped function once
\* and returns its ok value without raising; on failure it sets cancel and
\* stores the returned message, on success it leaves cancel false and the
\* message as it was.
NormalPathFollowsInner ==
    [][(VerifyProceedCall /\ ~stop_doing /\ ~status[last'.file].cancel) =>
            /\ last'.vpInner = 1
            /\ last'.ret = RetBool(last'.ok)
            /\ status'[last'.file].started
            /\ ~last'.ok =>
                   /\ status'[last'.file].cancel
                   /\ status'[last'.file].message = last'.message
            /\ last'.ok =>
                   /\ ~status'[last'.file].cancel
                   /\ status'[last'.file].message = status[last'.file].message]_vars

\* a successful invocation that returned a message left the file started, not
\* cancelled and without message
NormalPathWitness ==
    /\ last.op = "verify_proceed" /\ last.vpInner = 1
    /\ last.ok /\ last.message = "m1" /\ last.ret = RetBool(TRUE)
    /\ status[last.file].started /\ ~status[last.file].cancel
    /\ status[last.file].message = ""

\* C17: update_status invoked with a listed name that has a record marks the
\* sub-operation as started, invokes the wrapped function once and returns its
\* (ok, message); on failure it sets failed_op to the name and leaves done as
\* it was, on success it sets done; nothing else in the store changes.
SubStatusEffect ==
    [][(UpdateStatusCall /\ last'.name \in Whitelist
            /\ last'.name \in DOMAIN status[last'.file].ops) =>
            /\ last'.usInner = 1
            /\ last'.ret = RetTuple(last'.ok, last'.message)
            /\ status' =
                   IF last'.ok
                   THEN [status EXCEPT ![last'.file].ops[last'.name] =
                                           [started |-> TRUE, done |-> TRUE]]
                   ELSE [status EXCEPT ![last'.file].ops[last'.name].started = TRUE,
                                       ![last'.file].failed_op = last'.name]]_vars

\* a sub-operation whose function returned (False, "m2", extra) on a file that
\* is neither started nor cancelled: only failed_op and its started flag are set
SubStatusWitness ==
    /\ last.op = "update_status" /\ last.usInner = 1
    /\ ~last.ok /\ last.message = "m2" /\ last.ret = RetTuple(FALSE, "m2")
    /\ status[last.file].failed_op = last.name
    /\ status[last.file].ops[last.name] = [started |-> TRUE, done |-> FALSE]
    /\ ~status[last.file].cancel /\ ~status[last.file].started

\* some file's guarded operation has returned failure: it is started and
\* cancelled (a file cancelled by a cascade is not started)
SomeFileFailed == \E a \in Files : status[a].started /\ status[a].cancel

\* C18: with break_on_fail, once some file's guarded operation has returned
\* failure, every verify_proceed invocation on a file that was not started at
\* that moment returns False without invoking the wrapped function.
BreakOnFailStopsUnstarted ==
    [][(VerifyProceedCall /\ break_on_fail /\ SomeFileFailed
            /\ ~status[last'.file].started) =>
            /\ last'.ret = RetBool(FALSE)
            /\ last'.vpInner = 0 /\ last'.usInner = 0
            /\ ~status'[last'.file].started]_vars

\* with the interrupt flag clear, an invocation on a file that was unstarted
\* when another file failed was turned away
BreakOnFailStopsWitness ==
    /\ break_on_fail /\ ~stop_doing /\ SomeFileFailed
    /\ last.op = "verify_proceed" /\ last.vpInner = 0
    /\ last.ret = RetBool(FALSE)
    /\ ~status[last.file].started
    /\ \E a \in Files \ {last.file} :
           status[last.file].message = CascadeMessage(a)

\* C19: no record is added to or deleted from the status store, and a
\* started, cancel or sub-operation started/done flag that is set stays set.
RecordsKeptFlagsMonotone ==
    [][/\ DOMAIN status' = Files
       /\ \A f \in Files :
              /\ status[f].started => status'[f].started
              /\ status[f].cancel => status'[f].cancel
              /\ DOMAIN status'[f].ops = DOMAIN status[f].ops
              /\ \A n \in DOMAIN status[f].ops :
                     /\ status[f].ops[n].started => status'[f].ops[n].started
                     /\ status[f].ops[n].done => status'[f].ops[n].done]_vars

\* a sub-operation that was done has been attempted again and failed, on a
\* file that is started and cancelled
RecordsKeptWitness ==
    /\ ncalls = 3
    /\ last.op = "update_status" /\ last.usInner = 1 /\ ~last.ok
    /\ status[last.file].ops[last.name].done
    /\ status[last.file].started /\ status[last.file].cancel

\* C20: a sub-operation record that is done is started, done is set only by
\* an update_status invocation of that sub-operation on that file, and an
\* invocation whose wrapped function returns failure leaves done as it was.
DoneOnlyBySuccess ==
    [][\A f \in Files : \A n \in DOMAIN status[f].ops :
           /\ status'[f].ops[n].done => status'[f].ops[n].started
           /\ (~status[f].ops[n].done /\ status'[f].ops[n].done) =>
                  /\ GuardCall /\ last'.usInner = 1
                  /\ last'.file = f /\ last'.name = n
           /\ (UpdateStatusCall /\ ~last'.ok) =>
                  status'[f].ops[n].done = status[f].ops[n].done]_vars

\* a failed attempt was followed by a successful one that set done
DoneWitness ==
    /\ last.op = "update_status" /\ last.usInner = 1 /\ last.ok
    /\ status[last.file].ops[last.name] = [started |-> TRUE, done |-> TRUE]
    /\ status[last.file].failed_op = last.name

\* C21: in a sequential run, a file that is cancelled and not started exists
\* only with break_on_fail set and with another file that is started and
\* cancelled (the file whose failure cancelled it); so without break_on_fail
\* every cancelled file is a started file.
CancelledUnstartedHasTrigger ==
    /\ \A f \in Files :
           (status[f].cancel /\ ~status[f].started) =>
               /\ break_on_fail
               /\ \E g \in Files \ {f} : status[g].started /\ status[g].cancel
    /\ ~break_on_fail => \A f \in Files : status[f].cancel => status[f].started

\* file a failed under break-on-fail after c had succeeded: b is cancelled
\* and not started, c is started and not cancelled
CancelledUnstartedWitness ==
    /\ break_on_fail
    /\ last.op = "verify_proceed" /\ last.file = "a" /\ last.vpInner = 1 /\ ~last.ok
    /\ status["a"].started /\ status["a"].cancel
    /\ status["b"].cancel /\ ~status["b"].started
    /\ status["b"].message = CascadeMessage("a")
    /\ status["c"].started /\ ~status["c"].cancel

-----------------------------------------------------------------------------
(* Properties of the parallel run, checked under SpecPar *)

\* C11: when verify_proceed invocations on different files interleave
\* statement by statement, no file cancelled by the break-on-fail cascade is
\* started or has had its wrapped function invoked.
CascadeNeverHitsStartedFile ==
    \A f \in cascaded : ~status[f].started /\ f \notin ran

-----------------------------------------------------------------------------
(* Properties of connect_cloud, checked under SpecCloud *)

\* C14: when boto3 raises one of its errors, the call clears url and keys,
\* sets the error message and does not invoke the wrapped method; after any
\* call that did not connect, url and keys are None, a message is set and the
\* wrapped method was not invoked; the wrapped method is invoked, once and
\* with the resource stored, exactly when the connection was made; the
\* connection is attempted at most once per call.
ConnectFailureShortCircuits ==
    cloud.nconn > 0 =>
        /\ cloud.outcome # "ok" =>
               /\ cloud.url = "None" /\ cloud.keys = "None"
               /\ cloud.message # "" /\ cloud.funcCalls = 0
        /\ cloud.outcome \in {"Boto3Error", "BotoCoreError"} =>
               /\ cloud.url = "None" /\ cloud.keys = "None"
               /\ cloud.message = "S3 connection failed: " \o cloud.err
               /\ cloud.funcCalls = 0
        /\ cloud.funcCalls = (IF cloud.outcome = "ok" THEN 1 ELSE 0)
        /\ cloud.outcome = "ok" =>
               cloud.resource = [set |-> TRUE, url |-> cloud.url, keys |-> cloud.keys]
        /\ cloud.attempts <= 1

\* after a call that connected, a call failed: url and keys are cleared, the
\* message names the error and the wrapped method was not invoked
ConnectFailureWitness ==
    /\ cloud.nconn = 2 /\ cloud.resource.set
    /\ cloud.outcome = "BotoCoreError" /\ cloud.err = "m2"
    /\ cloud.url = "None" /\ cloud.keys = "None"
    /\ cloud.message = "S3 connection failed: m2"
    /\ cloud.funcCalls = 0

-----------------------------------------------------------------------------
(* Properties of subpath_required, checked under SpecDirs *)

\* C15: when the path does not exist and mkdir raises OSError the call
\* returns (False, <the error's message>) without invoking the wrapped
\* method; when the path exists or is created the wrapped method is invoked
\* and its result returned; a call on a path for which an earlier call
\* invoked the wrapped method finds the path, creates nothing and invokes the
\* wrapped method again.
DirectoryGuard ==
    [][dirs'.ncalls = dirs.ncalls + 1 =>
            /\ (~dirs'.existed /\ dirs'.mk = "OSError") =>
                   /\ dirs'.ret = RetTuple(FALSE, dirs'.err)
                   /\ dirs'.funcCalls = 0
            /\ (dirs'.existed \/ dirs'.mk = "ok") =>
                   /\ dirs'.funcCalls = 1 /\ dirs'.ret = dirs'.inner
                   /\ Subpath(dirs'.file) \in dirs'.fs
            /\ dirs'.existed = (Subpath(dirs'.file) \in dirs.fs)
            /\ dirs'.existed => (dirs'.mkdirCalls = 0 /\ dirs'.fs = dirs.fs)
            /\ (dirs.ncalls > 0 /\ dirs.file = dirs'.file /\ dirs.funcCalls = 1) =>
                   /\ dirs'.existed /\ dirs'.mkdirCalls = 0
                   /\ dirs'.funcCalls = 1]_vars

\* the second call on a path that the first call created
DirectoryGuardWitness ==
    /\ dirs.ncalls = 2 /\ dirs.file = "b"
    /\ dirs.existed /\ dirs.mkdirCalls = 0 /\ dirs.funcCalls = 1
    /\ dirs.fs = Prefixes(Subpath("b"))

====
